---------------------------- MODULE Spec2Model ----------------------------
(***************************************************************************)
(* TideSense backend, the /infer endpoint (src/server/main.py, infer_image *)
(* and generate_recommendations).                                          *)
(*                                                                         *)
(* Numbers.  Scores and probabilities are the reals of the Python code,    *)
(* held here as exact integers counted in 1/Unit: a score of 0.28 is       *)
(* (28 * Unit) \div 100.  Unit is chosen so that every product and         *)
(* quotient the code forms on the values the model draws is an integer     *)
(* (means of up to MaxTopK values, the weights 0.7/0.3, the slope 1.5).    *)
(* The percentage of a result is held in hundredths of a percent, which is *)
(* what round(x, 2) keeps.  IEEE rounding below 1e-15 is not modelled.     *)
(***************************************************************************)
EXTENDS Integers, Sequences, FiniteSets, TLC

VARIABLES
    pc,     \* pc[r]: where request r of /infer stands: "idle" or "reading"
    req,    \* req[r]: the upload request r carries (file.filename, its bytes)
    fs,     \* fs[n]: the bytes of server/tmp/<n>, or Absent
    loads,  \* how many times Interpreter(model_path) has been constructed
    resp,   \* the response of the request that completed last
    call    \* a direct call of one stage of the pipeline: argument and result

vars == <<pc, req, fs, loads, resp, call>>

-----------------------------------------------------------------------------
(* Bounds of the model *)

MaxScoreIdx == 1200     \* stabilized scores 0, GridStep, ..., MaxScoreIdx*GridStep
MaxDet == 6             \* detections of a tensor handed to the decoder alone
MaxDim == 12            \* image widths and heights 1..MaxDim (plus DimSamples)
MaxLoads == 2           \* model loads counted before no further load is taken

-----------------------------------------------------------------------------
(* Fixed-point arithmetic *)

Unit == 1200 * 100

Frac(n, d) == (n * Unit) \div d

GridStep == Unit \div 1200

Min(a, b) == IF a <= b THEN a ELSE b

Max(a, b) == IF a >= b THEN a ELSE b

\* round(x) to the nearest integer, ties to even, of n / q (q > 0): Python's round
RoundHalfEven(n, q) ==
    LET f == n \div q
        r == n % q
    IN  IF 2 * r < q THEN f
        ELSE IF 2 * r > q THEN f + 1
        ELSE IF f % 2 = 0 THEN f ELSE f + 1

RECURSIVE SeqSum(_)
SeqSum(s) == IF s = <<>> THEN 0 ELSE Head(s) + SeqSum(Tail(s))

RECURSIVE SeqMax(_)
SeqMax(s) == IF Len(s) = 1 THEN s[1] ELSE Max(Head(s), SeqMax(Tail(s)))

RECURSIVE Insert(_, _)
Insert(x, s) ==
    IF s = <<>> THEN <<x>>
    ELSE IF x <= Head(s) THEN <<x>> \o s
    ELSE <<Head(s)>> \o Insert(x, Tail(s))

\* np.sort: ascending
RECURSIVE NpSort(_)
NpSort(s) == IF s = <<>> THEN <<>> ELSE Insert(Head(s), NpSort(Tail(s)))

\* np.mean
NpMean(s) == SeqSum(s) \div Len(s)

-----------------------------------------------------------------------------
(* RiskClassifier: main.py 516-551 *)

\* Stage A with the test of the 0.18 band made strict
StageAStrictBand(stable_conf) ==
    IF stable_conf >= Frac(28, 100)
    THEN Min(Frac(85, 100), Frac(60, 100) + (stable_conf - Frac(28, 100)) * 2)
    ELSE IF stable_conf > Frac(18, 100)
    THEN Frac(40, 100) + (stable_conf - Frac(18, 100)) * 2
    ELSE Min(Frac(35, 100), (Frac(10, 100) * 2 + stable_conf * 3) \div 2)

\* Stage A: stabilized score -> danger probability.  0.10 + stable_conf * 1.5
\* is formed over the common denominator 2.
StageA(stable_conf) ==
    IF stable_conf >= Frac(28, 100)
    THEN Min(Frac(85, 100), Frac(60, 100) + (stable_conf - Frac(28, 100)) * 2)
    ELSE IF stable_conf >= Frac(18, 100)
    THEN Frac(40, 100) + (stable_conf - Frac(18, 100)) * 2
    ELSE Min(Frac(35, 100), (Frac(10, 100) * 2 + stable_conf * 3) \div 2)

\* Stage B with the two labels of its upper branches exchanged
StageBSwapped(danger_prob) ==
    IF danger_prob >= Frac(65, 100) THEN "MODERATE"
    ELSE IF danger_prob >= Frac(35, 100) THEN "HIGH"
    ELSE "LOW"

\* Stage B: danger probability -> status
StageB(danger_prob) ==
    IF danger_prob >= Frac(65, 100) THEN "HIGH"
    ELSE IF danger_prob >= Frac(35, 100) THEN "MODERATE"
    ELSE "LOW"

\* risk_level, set next to status in the same branches
RiskLevel(danger_prob) ==
    IF danger_prob >= Frac(65, 100) THEN "high"
    ELSE IF danger_prob >= Frac(35, 100) THEN "moderate"
    ELSE "low"

\* status_label, set next to danger_prob in the branches of Stage A and
\* printed with it (without the pictograph that leads each label)
StatusLabel(stable_conf) ==
    IF stable_conf >= Frac(28, 100) THEN "HIGH DANGER"
    ELSE IF stable_conf >= Frac(18, 100) THEN "MODERATE"
    ELSE "SAFE"

\* confidence = round(danger_prob * 100.0, 2), in hundredths of a percent
Confidence(danger_prob) == RoundHalfEven(danger_prob * 10000, Unit)

-----------------------------------------------------------------------------
(* OutputDecoder: main.py 472-536.  A tensor is its shape and its elements *)
(* in row-major order.                                                     *)

\* out[0, 4, :]
ConfidenceRow(out) ==
    LET n == out.shape[3]
    IN  [i \in 1..n |-> out.data[4 * n + i]]

\* the last top_k elements of the ascending sort
TopConfidences(confidences) ==
    LET top_k == Min(5, Len(confidences))
        sorted == NpSort(confidences)
    IN  SubSeq(sorted, Len(sorted) - top_k + 1, Len(sorted))

\* the weights of the average and of the maximum exchanged
StableConfSwapped(confidences) ==
    LET avg_top_conf == NpMean(TopConfidences(confidences))
        max_conf == SeqMax(confidences)
    IN  (3 * avg_top_conf + 7 * max_conf) \div 10

\* stable_conf = 0.7 * avg_top_conf + 0.3 * max_conf
StableConf(confidences) ==
    LET avg_top_conf == NpMean(TopConfidences(confidences))
        max_conf == SeqMax(confidences)
    IN  (7 * avg_top_conf + 3 * max_conf) \div 10

\* Both fallbacks running the maximum through Stage A
DecodeOutputStaged(out) ==
    IF Len(out.shape) = 3 /\ out.shape[2] >= 5
    THEN LET stable_conf == StableConf(ConfidenceRow(out))
         IN  [path |-> "normal", stable |-> stable_conf,
              danger_prob |-> StageA(stable_conf)]
    ELSE [path |-> "fallback", stable |-> SeqMax(out.data),
          danger_prob |-> StageA(SeqMax(out.data))]

\* From the raw output to danger_prob.  path and stable record which branch
\* ran and the scalar it took from the tensor.
DecodeOutput(out) ==
    IF Len(out.shape) = 3
    THEN IF out.shape[2] >= 5
         THEN LET stable_conf == StableConf(ConfidenceRow(out))
              IN  [path |-> "normal", stable |-> stable_conf,
                   danger_prob |-> StageA(stable_conf)]
         ELSE [path |-> "fallback", stable |-> SeqMax(out.data),
               danger_prob |-> SeqMax(out.data)]
    ELSE [path |-> "fallback", stable |-> SeqMax(out.data),
          danger_prob |-> SeqMax(out.data)]

-----------------------------------------------------------------------------
(* Preprocessor, the centre crop: main.py 436-442 *)

\* left and top taken without halving
CropBoxUnhalved(width, height) ==
    IF width # height
    THEN LET size == Min(width, height)
         IN  [cropped |-> TRUE, left |-> width - size, top |-> height - size,
              right |-> (width - size) + size, bottom |-> (height - size) + size]
    ELSE [cropped |-> FALSE, left |-> 0, top |-> 0, right |-> width, bottom |-> height]

\* The box handed to img.crop, or the whole image when it is square
CropBox(width, height) ==
    IF width # height
    THEN LET size == Min(width, height)
             left == (width - size) \div 2
             top == (height - size) \div 2
         IN  [cropped |-> TRUE, left |-> left, top |-> top,
              right |-> left + size, bottom |-> top + size]
    ELSE [cropped |-> FALSE, left |-> 0, top |-> 0, right |-> width, bottom |-> height]

-----------------------------------------------------------------------------
(* RecommendationGenerator: main.py 668-693.  The last entry is the        *)
(* f-string: its text before the number, the number, its text after.       *)

\* f"{confidence}": repr of a float that round(x, 2) produced, the shortest
\* decimal that reads back as it: a sign, the integer digits, and one or two
\* decimals (62.0, 30.05).  confidence is in hundredths of a percent.
FloatRepr(confidence) ==
    LET mag == IF confidence < 0 THEN -confidence ELSE confidence
        cents == mag % 100
    IN  [negative |-> confidence < 0,
         integer |-> mag \div 100,
         decimals |-> IF cents % 10 = 0 THEN <<cents \div 10>>
                      ELSE <<cents \div 10, cents % 10>>]

\* the low-risk list without its last two entries
generate_recommendations_short(risk_level, confidence) ==
    IF risk_level = "high"
    THEN << "DO NOT ENTER THE WATER - Dangerous riptide detected",
            "Stay at least 100 feet away from the shoreline",
            "Alert lifeguards or authorities immediately",
            "Warn others in the vicinity",
            <<"Detection confidence: ", FloatRepr(confidence), "% - High certainty">> >>
    ELSE IF risk_level = "moderate"
    THEN << "CAUTION - Possible riptide conditions detected",
            "Exercise extreme caution if entering water",
            "Stay close to shore and in designated swimming areas",
            "Swim parallel to shore if caught in a current",
            <<"Detection confidence: ", FloatRepr(confidence), "% - Moderate certainty">> >>
    ELSE << "Conditions appear relatively safe",
            "Always swim near a lifeguard",
            "Never swim alone" >>

generate_recommendations(risk_level, confidence) ==
    IF risk_level = "high"
    THEN << "DO NOT ENTER THE WATER - Dangerous riptide detected",
            "Stay at least 100 feet away from the shoreline",
            "Alert lifeguards or authorities immediately",
            "Warn others in the vicinity",
            <<"Detection confidence: ", FloatRepr(confidence), "% - High certainty">> >>
    ELSE IF risk_level = "moderate"
    THEN << "CAUTION - Possible riptide conditions detected",
            "Exercise extreme caution if entering water",
            "Stay close to shore and in designated swimming areas",
            "Swim parallel to shore if caught in a current",
            <<"Detection confidence: ", FloatRepr(confidence), "% - Moderate certainty">> >>
    ELSE << "Conditions appear relatively safe",
            "Always swim near a lifeguard",
            "Never swim alone",
            "Be aware conditions can change quickly",
            <<"Detection confidence: ", FloatRepr(confidence), "% - Low risk detected">> >>

-----------------------------------------------------------------------------
(* The /infer endpoint: main.py 371-604 *)

Reqs == {"r1", "r2"}

NoCall == [fn |-> "none", done |-> FALSE]

BoxFill == Frac(50, 100)

\* a [1, 5, n] tensor: four rows of box attributes, then the confidences cs
YoloTensor(cs) ==
    LET n == Len(cs)
    IN  [shape |-> <<1, 5, n>>,
         data |-> [i \in 1..(5 * n) |-> IF i <= 4 * n THEN BoxFill ELSE cs[i - 4 * n]]]

\* names an upload may carry: a plain one, which every request shares, and
\* one whose directory part does not exist under server/tmp, so that
\* open(file_path, 'wb') raises
FileNames == {"a.jpg"}

BadName == "nodir/x.jpg"

\* a file that does not exist (no byte is negative)
Absent == <<-1>>

\* uploads, as byte strings: two images and one that is no image
ImgWide == <<1, 2, 3>>

ImgSquare == <<4, 5>>

Corrupt == <<9>>

Uploads == {ImgWide, ImgSquare, Corrupt}

\* Image.open(file_path).convert('RGB') succeeds on exactly these byte strings
Decodable(bytes) == bytes \in {ImgWide, ImgSquare}

\* img.size of a decodable byte string
ImageSize(bytes) == IF bytes = ImgWide THEN <<400, 300>> ELSE <<2, 2>>

\* f.write(content) through a handle opened at offset 0: the bytes a later
\* writer left beyond our length stay
Overwrite(old, content) == content \o SubSeq(old, Len(content) + 1, Len(old))

Modules == {"tensorflow", "tflite_runtime"}

\* what can raise inside the model calls of one request: nothing, the
\* Interpreter constructor / allocate_tensors, or set_tensor / invoke
Faults == {"none", "load", "invoke"}

\* raw outputs interp.get_tensor can hand back
RawTensor(shape, data) == [shape |-> shape, data |-> data]

NoTensor == RawTensor(<<>>, <<>>)

PipeOutputs ==
    {YoloTensor(<<c>>) : c \in {Frac(5, 100), 36598, Frac(50, 100)}}
    \cup {RawTensor(<<1, 4, 2>>, [i \in 1..8 |-> IF i = 3 THEN m ELSE Frac(-30, 100)]) :
            m \in {Frac(-20, 100), Frac(150, 100)}}
    \cup {RawTensor(<<1, 2>>, <<Frac(10, 100), Frac(50, 100)>>)}

\* random.random() in 1/RandUnit
RandUnit == 80 * 1000

RandSamples == {0, 19996, 52000}

NoBox == [cropped |-> FALSE, left |-> 0, top |-> 0, right |-> 0, bottom |-> 0]

Timestamp == "datetime.datetime.now().isoformat()"

\* the try/except import chain
ResolveInterpreter(importable) ==
    IF "tensorflow" \in importable THEN "tf.lite.Interpreter"
    ELSE IF "tflite_runtime" \in importable THEN "tflite_runtime.Interpreter"
    ELSE "None"

Raised(cause, loaded, decoded, box, steps) ==
    [raised |-> TRUE, cause |-> cause, loaded |-> loaded, decoded |-> decoded,
     box |-> box, steps |-> steps, out |-> NoTensor, path |-> "none",
     stable |-> 0, danger_prob |-> 0]

\* the forward pass run before the image is opened
RealAttemptForwardFirst(disk, artifact, fault, out) ==
    IF ~artifact
    THEN Raised("ModelNotFound", FALSE, Absent, NoBox, <<"lookup_artifact">>)
    ELSE IF fault = "load"
    THEN Raised("InferenceFailure", FALSE, Absent, NoBox,
                <<"lookup_artifact", "load_model">>)
    ELSE IF fault = "invoke"
    THEN Raised("InferenceFailure", TRUE, Absent, NoBox,
                <<"lookup_artifact", "load_model", "forward">>)
    ELSE IF ~Decodable(disk)
    THEN Raised("PreprocessFailure", TRUE, disk, NoBox,
                <<"lookup_artifact", "load_model", "forward", "preprocess">>)
    ELSE LET size == ImageSize(disk)
             box == CropBox(size[1], size[2])
             d == DecodeOutput(out)
         IN  [raised |-> FALSE, cause |-> "none", loaded |-> TRUE,
              decoded |-> disk, box |-> box,
              steps |-> <<"lookup_artifact", "load_model", "forward",
                          "preprocess", "decode", "classify", "recommend">>,
              out |-> out, path |-> d.path, stable |-> d.stable,
              danger_prob |-> d.danger_prob]

\* The body of "if Interpreter is not None: try:" up to the values the result
\* is built from; raised when an exception leaves it.  disk holds the bytes of
\* file_path, artifact tells whether the model file exists.
RealAttempt(disk, artifact, fault, out) ==
    IF ~artifact
    THEN Raised("ModelNotFound", FALSE, Absent, NoBox, <<"lookup_artifact">>)
    ELSE IF fault = "load"
    THEN Raised("InferenceFailure", FALSE, Absent, NoBox,
                <<"lookup_artifact", "load_model">>)
    ELSE IF ~Decodable(disk)
    THEN Raised("PreprocessFailure", TRUE, disk, NoBox,
                <<"lookup_artifact", "load_model", "preprocess">>)
    ELSE LET size == ImageSize(disk)
             box == CropBox(size[1], size[2])
         IN  IF fault = "invoke"
             THEN Raised("InferenceFailure", TRUE, disk, box,
                         <<"lookup_artifact", "load_model", "preprocess", "forward">>)
             ELSE LET d == DecodeOutput(out)
                  IN  [raised |-> FALSE, cause |-> "none", loaded |-> TRUE,
                       decoded |-> disk, box |-> box,
                       steps |-> <<"lookup_artifact", "load_model", "preprocess",
                                   "forward", "decode", "classify", "recommend">>,
                       out |-> out, path |-> d.path, stable |-> d.stable,
                       danger_prob |-> d.danger_prob]

NotAttempted ==
    Raised("RuntimeUnavailable", FALSE, Absent, NoBox, <<>>)

\* an inner handler that lets a missing model file through
InnerExceptCatchesNotFileNotFound(cause) == cause # "ModelNotFound"

\* "except Exception as e" of the inner try: every exception is caught there
InnerExceptCatches(cause) == TRUE

\* confidence = round(10 + random.random() * 80, 2), in hundredths of a percent
MockConfidence(rnd) == RoundHalfEven((10 * RandUnit + rnd * 80) * 100, RandUnit)

MockStatus(confidence) ==
    IF confidence < 30 * 100 THEN "LOW"
    ELSE IF confidence < 60 * 100 THEN "MODERATE"
    ELSE "HIGH"

\* the mock block with the thresholds of the real path for risk_level only
MockRiskLevelStageB(confidence) ==
    IF confidence < 35 * 100 THEN "low"
    ELSE IF confidence < 65 * 100 THEN "moderate"
    ELSE "high"

MockRiskLevel(confidence) ==
    IF confidence < 30 * 100 THEN "low"
    ELSE IF confidence < 60 * 100 THEN "moderate"
    ELSE "high"

ErrorResponse(cause, upload, a, steps) ==
    [kind |-> "error", status_code |-> 500, backend |-> "none", cause |-> cause,
     upload |-> upload, decoded |-> a.decoded, loaded |-> a.loaded, box |-> a.box,
     out |-> NoTensor, path |-> "none", stable |-> 0, danger_prob |-> 0,
     status |-> "", probability |-> 0, timestamp |-> "", recommendations |-> <<>>,
     steps |-> steps]

\* The DetectionResult /infer returns, or the HTTPException(500) it raises,
\* once the upload is on disk: the import chain, the real attempt, the mock.
InferResponse(upload, disk, importable, artifact, fault, out, rnd) ==
    LET Interpreter == ResolveInterpreter(importable)
        a == IF Interpreter # "None" THEN RealAttempt(disk, artifact, fault, out)
             ELSE NotAttempted
        head == <<"ingest", "resolve_runtime">> \o a.steps
    IN  IF ~a.raised
        THEN LET confidence == Confidence(a.danger_prob)
             IN  [kind |-> "result", status_code |-> 200, backend |-> "real",
                  cause |-> "none", upload |-> upload, decoded |-> a.decoded,
                  loaded |-> a.loaded, box |-> a.box, out |-> a.out,
                  path |-> a.path, stable |-> a.stable,
                  danger_prob |-> a.danger_prob,
                  status |-> StageB(a.danger_prob), probability |-> confidence,
                  timestamp |-> Timestamp,
                  recommendations |->
                      generate_recommendations(RiskLevel(a.danger_prob), confidence),
                  steps |-> head \o <<"respond">>]
        ELSE IF Interpreter = "None" \/ InnerExceptCatches(a.cause)
        THEN LET confidence == MockConfidence(rnd)
             IN  [kind |-> "result", status_code |-> 200, backend |-> "mock",
                  cause |-> a.cause, upload |-> upload, decoded |-> a.decoded,
                  loaded |-> a.loaded, box |-> a.box, out |-> NoTensor,
                  path |-> "mock", stable |-> 0, danger_prob |-> 0,
                  status |-> MockStatus(confidence), probability |-> confidence,
                  timestamp |-> Timestamp,
                  recommendations |->
                      generate_recommendations(MockRiskLevel(confidence), confidence),
                  steps |-> head \o <<"mock", "recommend", "respond">>]
        ELSE ErrorResponse(a.cause, upload, a, head)

\* What the process finds around one request: the importable runtimes, whether
\* the model file exists, what raises, the raw output of the forward pass and
\* the value of random.random().  An input the handler cannot reach in a case
\* (the raw output when the model file is missing, ...) is held at one value.
Env(importable, artifact, fault, out, rnd) ==
    [importable |-> importable, artifact |-> artifact, fault |-> fault,
     out |-> out, rnd |-> rnd]

EnvCases(decodable) ==
    LET anyOut == YoloTensor(<<Frac(50, 100)>>)
        anyRnd == 0
        runtimes == (SUBSET Modules) \ {{}}
    IN  {Env({}, TRUE, "none", anyOut, rnd) : rnd \in RandSamples}
        \cup {Env(i, FALSE, "none", anyOut, rnd) : i \in runtimes, rnd \in RandSamples}
        \cup {Env(i, TRUE, f, anyOut, rnd) :
                i \in runtimes, f \in {"load", "invoke"}, rnd \in RandSamples}
        \cup IF decodable
             THEN {Env(i, TRUE, "none", out, anyRnd) : i \in runtimes, out \in PipeOutputs}
             ELSE {Env(i, TRUE, "none", anyOut, rnd) : i \in runtimes, rnd \in RandSamples}

NoResponse ==
    ErrorResponse("none", <<>>, NotAttempted, <<>>)

NoReq == [filename |-> "", content |-> <<>>]

Init ==
    /\ pc = [r \in Reqs |-> "idle"]
    /\ req = [r \in Reqs |-> NoReq]
    /\ fs = [n \in FileNames |-> Absent]
    /\ loads = 0
    /\ resp = [NoResponse EXCEPT !.kind = "none"]
    /\ call = NoCall

\* A request arrives: tmp_dir.mkdir, open(file_path, 'wb') creates or truncates
\* the file, and the coroutine waits in "await file.read()".
InferBegin(r, filename, content) ==
    /\ pc[r] = "idle"
    /\ pc' = [pc EXCEPT ![r] = "reading"]
    /\ req' = [req EXCEPT ![r] = [filename |-> filename, content |-> content]]
    /\ fs' = [fs EXCEPT ![filename] = <<>>]
    /\ UNCHANGED <<loads, resp, call>>

\* A request whose filename names a directory that does not exist: open raises,
\* the outer handler turns it into HTTPException(500).
InferRejected(r, content) ==
    /\ pc[r] = "idle"
    /\ resp' = ErrorResponse("IngestFailure", content, NotAttempted, <<"ingest">>)
    /\ UNCHANGED <<pc, req, fs, loads, call>>

\* file.read() returns: the bytes are written and the file closed, then the
\* handler runs without another await to its return or raise.
InferResume(r) ==
    /\ pc[r] = "reading"
    /\ LET filename == req[r].filename
           content == req[r].content
           disk == Overwrite(fs[filename], content)
       IN  \E env \in EnvCases(Decodable(disk)) :
              LET response ==
                      InferResponse(content, disk, env.importable, env.artifact,
                                    env.fault, env.out, env.rnd)
              IN  /\ response.loaded => loads < MaxLoads
                  /\ fs' = [fs EXCEPT ![filename] = disk]
                  /\ loads' = IF response.loaded THEN loads + 1 ELSE loads
                  /\ resp' = response
    /\ pc' = [pc EXCEPT ![r] = "idle"]
    /\ req' = [req EXCEPT ![r] = NoReq]
    /\ UNCHANGED call

Next ==
    \/ \E r \in Reqs, filename \in FileNames, content \in Uploads :
          InferBegin(r, filename, content)
    \/ \E r \in Reqs, content \in Uploads : InferRejected(r, content)
    \/ \E r \in Reqs : InferResume(r)

Spec == Init /\ [][Next]_vars

-----------------------------------------------------------------------------
(* Direct calls of one stage: the argument is drawn, then the stage runs.  *)

\* stabilized scores 0 .. MaxScoreIdx * GridStep, in steps of 1/1200
ScoreGrid == {i * GridStep : i \in 0..MaxScoreIdx}

\* per-detection confidences; two of them lie outside [0,1]
ConfVals == {Frac(-10, 100), 0, Frac(40, 100), Frac(100, 100), Frac(130, 100)}

DimSamples == (1..MaxDim) \cup {300, 400}

\* no request has arrived
InitPipelineIdle ==
    /\ pc = [r \in Reqs |-> "idle"]
    /\ req = [r \in Reqs |-> NoReq]
    /\ fs = [n \in FileNames |-> Absent]
    /\ loads = 0
    /\ resp = [NoResponse EXCEPT !.kind = "none"]

pipelineVars == <<pc, req, fs, loads, resp>>

InitClassifier ==
    /\ InitPipelineIdle
    /\ call \in {[fn |-> "classify", done |-> FALSE, stable_conf |-> s] : s \in ScoreGrid}

\* main.py 516-551 on one stabilized score
Classify ==
    /\ call.fn = "classify" /\ ~call.done
    /\ LET danger_prob == StageA(call.stable_conf)
       IN  call' = [fn |-> "classify", done |-> TRUE,
                    stable_conf |-> call.stable_conf,
                    danger_prob |-> danger_prob,
                    status_label |-> StatusLabel(call.stable_conf),
                    confidence |-> Confidence(danger_prob),
                    status |-> StageB(danger_prob),
                    risk_level |-> RiskLevel(danger_prob)]
    /\ UNCHANGED pipelineVars

NextClassifier == Classify

SpecClassifier == InitClassifier /\ [][NextClassifier]_vars

InitDecoder ==
    /\ InitPipelineIdle
    /\ \E n \in 1..MaxDet : \E cs \in [1..n -> ConfVals] :
          call = [fn |-> "decode", done |-> FALSE, out |-> YoloTensor(cs)]

\* main.py 472-509 on one raw output
Decode ==
    /\ call.fn = "decode" /\ ~call.done
    /\ LET d == DecodeOutput(call.out)
       IN  call' = [fn |-> "decode", done |-> TRUE, out |-> call.out,
                    path |-> d.path, stable_conf |-> d.stable]
    /\ UNCHANGED pipelineVars

NextDecoder == Decode

SpecDecoder == InitDecoder /\ [][NextDecoder]_vars

InitCrop ==
    /\ InitPipelineIdle
    /\ call \in {[fn |-> "crop", done |-> FALSE, width |-> w, height |-> h] :
                    w \in DimSamples, h \in DimSamples}

\* main.py 436-442 on one image size
Crop ==
    /\ call.fn = "crop" /\ ~call.done
    /\ call' = [fn |-> "crop", done |-> TRUE, width |-> call.width,
                height |-> call.height, box |-> CropBox(call.width, call.height)]
    /\ UNCHANGED pipelineVars

NextCrop == Crop

SpecCrop == InitCrop /\ [][NextCrop]_vars

-----------------------------------------------------------------------------
(* Properties of the classifier, checked under SpecClassifier *)

TierRank(status) ==
    CASE status = "LOW" -> 0
      [] status = "MODERATE" -> 1
      [] status = "HIGH" -> 2

\* C3: the two-stage classifier is monotonic: no stabilized score below the one
\* classified gets a higher tier than it (LOW < MODERATE < HIGH), across the
\* band boundaries 0.18 and 0.28 and the clamps at 0.35 and 0.85.
C3_Monotonic ==
    (call.fn = "classify" /\ call.done) =>
        \A s1 \in ScoreGrid :
            s1 < call.stable_conf =>
                TierRank(StageB(StageA(s1))) <= TierRank(call.status)

\* a score on the 0.85 clamp is HIGH while scores below 0.18, in the 0.35 clamp,
\* are already MODERATE and lower ones are LOW
C3_Witness ==
    /\ call.fn = "classify" /\ call.done
    /\ call.stable_conf = Frac(405, 1000)
    /\ call.danger_prob = Frac(85, 100)
    /\ call.status = "HIGH"
    /\ \E s1 \in ScoreGrid : s1 < Frac(18, 100) /\ StageB(StageA(s1)) = "MODERATE"
    /\ \E s1 \in ScoreGrid : s1 < Frac(18, 100) /\ StageB(StageA(s1)) = "LOW"
    /\ \E s1 \in ScoreGrid : s1 >= Frac(28, 100) /\ StageB(StageA(s1)) = "MODERATE"

\* The lookup of the specification, bands in ascending order, twice the danger
\* probability so that 1.5 * s is the integer 3 * s
LookupDanger2(s) ==
    CASE s < Frac(18, 100) -> Min(2 * Frac(35, 100), 2 * Frac(10, 100) + 3 * s)
      [] s >= Frac(18, 100) /\ s < Frac(28, 100) ->
            2 * Frac(40, 100) + 4 * (s - Frac(18, 100))
      [] s >= Frac(28, 100) ->
            Min(2 * Frac(85, 100), 2 * Frac(60, 100) + 4 * (s - Frac(28, 100)))

LookupTier(danger2) ==
    CASE danger2 >= 2 * Frac(65, 100) -> "HIGH"
      [] danger2 < 2 * Frac(65, 100) /\ danger2 >= 2 * Frac(35, 100) -> "MODERATE"
      [] danger2 < 2 * Frac(35, 100) -> "LOW"

ClassifiedAs(s, danger, tier) ==
    call.stable_conf = s => (call.danger_prob = danger /\ call.status = tier)

\* C5: for every stabilized score the classifier equals the specified lookup
\* (three bands with their clamps, then the tiers at 0.35 and 0.65); 0.10 gives
\* 0.25/LOW, 0.20 gives 0.44/MODERATE, 0.35 gives 0.74/HIGH, 0.28 gives
\* 0.60/MODERATE.
C5_Lookup ==
    (call.fn = "classify" /\ call.done) =>
        /\ 2 * call.danger_prob = LookupDanger2(call.stable_conf)
        /\ call.status = LookupTier(2 * call.danger_prob)
        /\ ClassifiedAs(Frac(10, 100), Frac(25, 100), "LOW")
        /\ ClassifiedAs(Frac(20, 100), Frac(44, 100), "MODERATE")
        /\ ClassifiedAs(Frac(35, 100), Frac(74, 100), "HIGH")
        /\ ClassifiedAs(Frac(28, 100), Frac(60, 100), "MODERATE")

C5_Witness ==
    /\ call.fn = "classify" /\ call.done
    /\ call.stable_conf = Frac(28, 100)
    /\ call.danger_prob = Frac(60, 100)
    /\ call.status = "MODERATE"

-----------------------------------------------------------------------------
(* Properties of the decoder, checked under SpecDecoder *)

RECURSIVE SumOver(_, _)
SumOver(cs, I) ==
    IF I = {} THEN 0
    ELSE LET i == CHOOSE j \in I : TRUE
         IN  cs[i] + SumOver(cs, I \ {i})

\* the sum of the k largest of cs: the largest sum any k of them have
TopKSum(cs, k) ==
    LET sums == {SumOver(cs, I) : I \in {J \in SUBSET (1..Len(cs)) : Cardinality(J) = k}}
    IN  CHOOSE x \in sums : \A y \in sums : y <= x

Largest(cs) == CHOOSE x \in {cs[i] : i \in 1..Len(cs)} : \A i \in 1..Len(cs) : cs[i] <= x

\* C6: on a [1, >=5, n >= 1] tensor the stabilized score is 0.7 * (mean of the
\* k = min(5, n) largest confidences of row 4) + 0.3 * (the largest); when all
\* confidences are in [0,1] it lies between that mean and the maximum, hence in
\* [0,1]; with one detection it is that detection's confidence.
C6_Stabilized ==
    (call.fn = "decode" /\ call.done) =>
        LET n == call.out.shape[3]
            cs == [i \in 1..n |-> call.out.data[4 * n + i]]
            k == IF n < 5 THEN n ELSE 5
        IN  /\ call.path = "normal"
            /\ 10 * k * call.stable_conf = 7 * TopKSum(cs, k) + 3 * k * Largest(cs)
            /\ (\A i \in 1..n : 0 <= cs[i] /\ cs[i] <= Unit) =>
                  /\ TopKSum(cs, k) <= k * call.stable_conf
                  /\ call.stable_conf <= Largest(cs)
                  /\ 0 <= call.stable_conf /\ call.stable_conf <= Unit
            /\ n = 1 => call.stable_conf = cs[1]

\* more than five detections, all in [0,1], not all equal: the score lies
\* strictly between the top-5 mean and the maximum
C6_Witness ==
    /\ call.fn = "decode" /\ call.done
    /\ call.out.shape[3] > 5
    /\ LET n == call.out.shape[3]
           cs == [i \in 1..n |-> call.out.data[4 * n + i]]
       IN  /\ \A i \in 1..n : 0 <= cs[i] /\ cs[i] <= Unit
           /\ TopKSum(cs, 5) < 5 * call.stable_conf
           /\ call.stable_conf < Largest(cs)
           /\ cs[n] = 0 /\ cs[1] = Frac(100, 100)

-----------------------------------------------------------------------------
(* Properties of the centre crop, checked under SpecCrop *)

Abs(x) == IF x < 0 THEN -x ELSE x

\* C8: an image with w # h is cropped to the square of side min(w,h) at
\* ((w-size) div 2, (h-size) div 2): the box lies inside the image, one offset
\* is 0, opposite margins differ by at most 1 (400x300: left 50, top 0, size
\* 300); a square image is not cropped.
C8_CenterCrop ==
    (call.fn = "crop" /\ call.done) =>
        LET w == call.width
            h == call.height
            b == call.box
            size == IF w < h THEN w ELSE h
        IN  IF w # h
            THEN /\ b.cropped
                 /\ b.left = (w - size) \div 2 /\ b.top = (h - size) \div 2
                 /\ b.right - b.left = size /\ b.bottom - b.top = size
                 /\ 0 <= b.left /\ b.right <= w /\ 0 <= b.top /\ b.bottom <= h
                 /\ (b.left = 0 \/ b.top = 0)
                 /\ Abs(b.left - (w - b.right)) <= 1
                 /\ Abs(b.top - (h - b.bottom)) <= 1
                 /\ (w = 400 /\ h = 300) =>
                        (b.left = 50 /\ b.top = 0 /\ b.right - b.left = 300)
            ELSE ~b.cropped

C8_Witness ==
    /\ call.fn = "crop" /\ call.done
    /\ call.width = 400 /\ call.height = 300
    /\ call.box.cropped /\ call.box.left = 50 /\ call.box.right = 350

-----------------------------------------------------------------------------
(* Properties of the endpoint, checked under Spec *)

ModelLayerFailures == {"RuntimeUnavailable", "ModelNotFound", "InferenceFailure"}

Tiers == {"LOW", "MODERATE", "HIGH"}

\* np.max over the whole tensor, stated without the recursion of SeqMax
TensorMax(out) ==
    CHOOSE x \in {out.data[i] : i \in 1..Len(out.data)} :
        \A i \in 1..Len(out.data) : out.data[i] <= x

Malformed(out) == Len(out.shape) # 3 \/ out.shape[2] < 5

\* C1: a request whose uploaded bytes cannot be decoded as an image ends with
\* an error surfaced to the caller; it never returns a DetectionResult.
C1_UndecodableIsError ==
    (resp.kind # "none" /\ ~Decodable(resp.upload)) => resp.kind = "error"

\* C2: with a decodable upload, every model-layer failure (no runtime, model
\* file missing, exception in load or forward pass) diverts to the mock and
\* the request returns a well-formed DetectionResult, never an error.
C2_ModelFailuresDegrade ==
    (Decodable(resp.upload) /\ resp.cause \in ModelLayerFailures) =>
        /\ resp.kind = "result" /\ resp.status_code = 200
        /\ resp.backend = "mock"
        /\ resp.status \in Tiers
        /\ resp.probability \in Int
        /\ resp.timestamp # ""
        /\ resp.recommendations # <<>>

\* the forward pass raised after the model was loaded and the image decoded
C2_Witness ==
    /\ Decodable(resp.upload)
    /\ resp.cause = "InferenceFailure" /\ resp.loaded /\ resp.decoded = resp.upload
    /\ resp.kind = "result" /\ resp.backend = "mock"

\* C4: the probability of every DetectionResult lies in [0, 100], on the
\* normal decode path, the malformed-shape fallback and the mock path.
C4_ProbabilityInRange ==
    resp.kind = "result" => (0 <= resp.probability /\ resp.probability <= 100 * 100)

C9_ScratchRemoved ==
    \A n \in FileNames :
        fs[n] # Absent => \E r \in Reqs : pc[r] = "reading" /\ req[r].filename = n

\* C10: across the requests of one process the model is loaded at most once.
C10_LoadedAtMostOnce == loads <= 1

\* C11: every DetectionResult, from the real or the mock backend, carries
\* between 4 and 5 recommendations and a non-empty timestamp.
C11_RecommendationsAndTimestamp ==
    resp.kind = "result" =>
        /\ Len(resp.recommendations) >= 4 /\ Len(resp.recommendations) <= 5
        /\ resp.timestamp # ""

\* a mock result of the lowest tier, after the runtime was found missing
C11_Witness ==
    /\ resp.kind = "result" /\ resp.backend = "mock"
    /\ resp.cause = "RuntimeUnavailable" /\ resp.status = "LOW"
    /\ Len(resp.recommendations) = 5 /\ resp.timestamp # ""

\* C12: in every DetectionResult, mock results included, the status is the
\* Stage B tier of the reported probability: HIGH exactly from 65, MODERATE
\* exactly on [35, 65), LOW exactly below 35.
C12_StatusIsTierOfProbability ==
    resp.kind = "result" =>
        /\ resp.status = "HIGH" <=> resp.probability >= 65 * 100
        /\ resp.status = "MODERATE" <=>
              (resp.probability >= 35 * 100 /\ resp.probability < 65 * 100)
        /\ resp.status = "LOW" <=> resp.probability < 35 * 100

\* the stage of the pipeline each step of the handler belongs to
StageOf(step) ==
    CASE step = "ingest" -> "INGEST"
      [] step = "preprocess" -> "PREPROCESS"
      [] step \in {"resolve_runtime", "lookup_artifact", "load_model", "forward", "mock"} ->
            "INFER"
      [] step = "decode" -> "DECODE"
      [] step = "classify" -> "CLASSIFY"
      [] step = "recommend" -> "RECOMMEND"
      [] step = "respond" -> "RESPOND"

StageRank(stage) ==
    CASE stage = "INGEST" -> 1
      [] stage = "PREPROCESS" -> 2
      [] stage = "INFER" -> 3
      [] stage = "DECODE" -> 4
      [] stage = "CLASSIFY" -> 5
      [] stage = "RECOMMEND" -> 6
      [] stage = "RESPOND" -> 7

\* the steps in the order the handler is written; a diversion to the mock
\* stands where the forward pass would, before the decoding it replaces
StepRank(step) ==
    CASE step = "ingest" -> 1
      [] step = "resolve_runtime" -> 2
      [] step = "lookup_artifact" -> 3
      [] step = "load_model" -> 4
      [] step = "preprocess" -> 5
      [] step = "forward" -> 6
      [] step = "mock" -> 7
      [] step = "decode" -> 8
      [] step = "classify" -> 9
      [] step = "recommend" -> 10
      [] step = "respond" -> 11

Before(steps, a, i) == \E j \in 1..(i - 1) : steps[j] = a

AdvisoryLead(status) ==
    CASE status = "HIGH" ->
            << "DO NOT ENTER THE WATER - Dangerous riptide detected",
               "Stay at least 100 feet away from the shoreline",
               "Alert lifeguards or authorities immediately",
               "Warn others in the vicinity" >>
      [] status = "MODERATE" ->
            << "CAUTION - Possible riptide conditions detected",
               "Exercise extreme caution if entering water",
               "Stay close to shore and in designated swimming areas",
               "Swim parallel to shore if caught in a current" >>
      [] status = "LOW" ->
            << "Conditions appear relatively safe",
               "Always swim near a lifeguard",
               "Never swim alone",
               "Be aware conditions can change quickly" >>

AdvisoryClose(status) ==
    CASE status = "HIGH" -> "% - High certainty"
      [] status = "MODERATE" -> "% - Moderate certainty"
      [] status = "LOW" -> "% - Low risk detected"

\* the number a printed percentage reads back as, in hundredths of a percent
ReadPercent(text) ==
    LET d == text.decimals
        cents == IF Len(d) = 1 THEN d[1] * 10 ELSE d[1] * 10 + d[2]
        mag == text.integer * 100 + cents
    IN  IF text.negative THEN -mag ELSE mag

\* C14: in every DetectionResult, real or mock, the recommendations are the
\* fixed ordered list of the tier equal to the status, and the percentage
\* printed in the last entry is the probability field.
C14_AdvisoryOfStatus ==
    resp.kind = "result" =>
        LET recs == resp.recommendations
        IN  /\ Len(recs) = 5
            /\ SubSeq(recs, 1, 4) = AdvisoryLead(resp.status)
            /\ recs[5][1] = "Detection confidence: "
            /\ recs[5][3] = AdvisoryClose(resp.status)
            /\ ReadPercent(recs[5][2]) = resp.probability

\* a mock result at 62.0 percent: HIGH, led by the do-not-enter directive
C14_Witness ==
    /\ resp.kind = "result" /\ resp.backend = "mock"
    /\ resp.status = "HIGH" /\ resp.probability = 62 * 100
    /\ resp.recommendations[1] = "DO NOT ENTER THE WATER - Dangerous riptide detected"
    /\ resp.recommendations[5][2].decimals = <<0>>

\* C15: under any interleaving of two requests, the bytes a request hands to
\* Image.open are the bytes that request uploaded.
C15_DecodesOwnUpload ==
    (resp.kind # "none" /\ resp.decoded # Absent) => resp.decoded = resp.upload

\* C16: on the normal decode path the band Stage A selects and logs agrees
\* with the final status: a score below 0.18, labelled SAFE, ends LOW; a score
\* in [0.18, 0.28), labelled MODERATE, ends MODERATE; a score of 0.28 or more,
\* labelled HIGH DANGER, ends HIGH.
C16_BandAgreesWithStatus ==
    (call.fn = "classify" /\ call.done) =>
        LET s == call.stable_conf
        IN  /\ s < Frac(18, 100) =>
                  call.status_label = "SAFE" /\ call.status = "LOW"
            /\ (s >= Frac(18, 100) /\ s < Frac(28, 100)) =>
                  call.status_label = "MODERATE" /\ call.status = "MODERATE"
            /\ s >= Frac(28, 100) =>
                  call.status_label = "HIGH DANGER" /\ call.status = "HIGH"

=============================================================================
